---------------------------- MODULE Spec2Model ----------------------------
(***************************************************************************)
(* binance-json-parsing: the offset-assisted bookTicker field extractor    *)
(* (parse_book_ticker), the latency probe (measure) and the driving loop   *)
(* of main, modelled from src/src/main.rs.                                 *)
(*                                                                         *)
(* A message is a TLA+ string of ASCII characters.  Offsets are 0-based,   *)
(* as in the source: ByteAt(json, i) is json.as_bytes()[i].                *)
(* A u64 that is read from text (the field T) is held as its canonical     *)
(* decimal numeral (no sign, no leading zero), since 1744760290967 does    *)
(* not fit the model checker's integers.                                   *)
(***************************************************************************)
EXTENDS Integers, Sequences, FiniteSets, TLC

VARIABLES
    json,               \* the text of the message being decoded
    config,             \* the ParsingConfig handed to parse_book_ticker
    result,             \* what parse_book_ticker produced (BookTicker or panic)
    pc,                 \* "ready" | "returned" | "panicked" | "running" | "ended" | "failed"
    input,              \* how the message under test was put together
    ticks_acc,          \* main: accumulated elapsed cycles (u64)
    measurements_num,   \* main: number of measurements (u64)
    avg,                \* main: the last "duration avg" printed
    divisor,            \* main: the divisor of the last average computed
    overflow_checks,    \* the build: TRUE when integer overflow panics, FALSE when it wraps
    samples,            \* history: elapsed cycles of the measured messages
    parsed,             \* history: number of calls of parse_book_ticker that returned
    received            \* history: number of stream items received

vars == <<json, config, result, pc, input, ticks_acc, measurements_num,
          avg, divisor, overflow_checks, samples, parsed, received>>

parseVars == <<json, config, result, input>>
loopVars == <<ticks_acc, measurements_num, avg, divisor, overflow_checks,
              samples, parsed, received>>

---------------------------------------------------------------------------
(* Bytes and strings *)

NoneVal == -1

Digits == "0123456789"

ByteAt(s, i) == SubSeq(s, i + 1, i + 1)

InBounds(s, i) == i >= 0 /\ i < Len(s)

\* &s[lo..hi]
Slice(s, lo, hi) == SubSeq(s, lo + 1, hi)

\* &s[lo..]
SliceFrom(s, lo) == SubSeq(s, lo + 1, Len(s))

IsDigit(c) == \E d \in 0..9 : ByteAt(Digits, d) = c

DigitVal(c) == CHOOSE d \in 0..9 : ByteAt(Digits, d) = c

\* str::find(ch): the offset of the first occurrence, or None
StrFind(s, ch) ==
    LET hits == {i \in 0..(Len(s) - 1) : ByteAt(s, i) = ch}
    IN  IF hits = {} THEN NoneVal
        ELSE CHOOSE i \in hits : \A j \in hits : i <= j

---------------------------------------------------------------------------
(* str::parse::<u64>() *)

U64MaxNumeral == "18446744073709551615"

\* the numeral without its leading zeros (at least one digit is kept)
RECURSIVE StripZeros(_)
StripZeros(s) ==
    IF Len(s) > 1 /\ ByteAt(s, 0) = "0" THEN StripZeros(SliceFrom(s, 1)) ELSE s

\* a <= b for two canonical decimal numerals
NumeralLE(a, b) ==
    \/ Len(a) < Len(b)
    \/ /\ Len(a) = Len(b)
       /\ LET diff == {i \in 0..(Len(a) - 1) : ByteAt(a, i) # ByteAt(b, i)}
          IN  \/ diff = {}
              \/ LET k == CHOOSE i \in diff : \A j \in diff : i <= j
                 IN  DigitVal(ByteAt(a, k)) < DigitVal(ByteAt(b, k))

ParseErr(kind) == [ok |-> FALSE, err |-> kind, val |-> ""]

\* <u64 as FromStr>::from_str: an empty string, a lone sign, a character that
\* is no digit and a value above u64::MAX are errors; one leading '+' is
\* accepted and dropped (a leading '-' is an invalid digit for an unsigned type).
ParseU64(s) ==
    IF Len(s) = 0 THEN ParseErr("Empty")
    ELSE IF s = "+" \/ s = "-" THEN ParseErr("InvalidDigit")
    ELSE LET digits == IF ByteAt(s, 0) = "+" THEN SliceFrom(s, 1) ELSE s
         IN  IF \E i \in 0..(Len(digits) - 1) : ~IsDigit(ByteAt(digits, i))
                 THEN ParseErr("InvalidDigit")
             ELSE IF ~NumeralLE(StripZeros(digits), U64MaxNumeral)
                 THEN ParseErr("PosOverflow")
             ELSE [ok |-> TRUE, err |-> "", val |-> StripZeros(digits)]

---------------------------------------------------------------------------
(* parse_book_ticker *)

\* variants of the three skips, each one byte short
SkipAnchor_Short == 4 - 1
SkipQuoted_Short == 7 - 1
SkipToT_Short == 6 - 1

\* Skip 4 chars: b":"
SkipAnchor == 4
\* Skip 7 chars: ","B":"
SkipQuoted == 7
\* Skip 6 chars: ","T":
SkipToT == 6

NoOffsets ==
    [b_start |-> 0, b_end |-> 0, B_start |-> 0, B_end |-> 0, a_start |-> 0,
     a_end |-> 0, A_start |-> 0, A_end |-> 0, T_start |-> 0, T_end |-> 0]

\* a panic of parse_book_ticker: which check failed, and for which field
Panic(field, kind) ==
    [ok |-> FALSE, field |-> field, kind |-> kind,
     T |-> "", b |-> "", B |-> "", a |-> "", A |-> "", at |-> NoOffsets]

\* variant: the byte of the decimal point is not counted
FieldEnd_NoDot(dot_pos, precision) == dot_pos + precision

\* dot_pos + precision + 1
FieldEnd(dot_pos, precision) == dot_pos + precision + 1

\* variant: the closing quote is not asserted
DecimalField_NoQuoteCheck(s, f_start, precision) ==
    IF f_start > Len(s) THEN [ok |-> FALSE, kind |-> "slice", end |-> 0]
    ELSE LET found == StrFind(SliceFrom(s, f_start), ".")
         IN  IF found = NoneVal THEN [ok |-> FALSE, kind |-> "dot", end |-> 0]
             ELSE LET dot_pos == f_start + found
                      f_end == dot_pos + precision + 1
                  IN  IF ~InBounds(s, f_end)
                          THEN [ok |-> FALSE, kind |-> "index", end |-> 0]
                      ELSE [ok |-> TRUE, kind |-> "", end |-> f_end]

\* variant: find('.').unwrap_or(0) in the place of find('.').unwrap()
DecimalField_DotDefault(s, f_start, precision) ==
    IF f_start > Len(s) THEN [ok |-> FALSE, kind |-> "slice", end |-> 0]
    ELSE LET found == StrFind(SliceFrom(s, f_start), ".")
             dot_pos == f_start + (IF found = NoneVal THEN 0 ELSE found)
             f_end == dot_pos + precision + 1
         IN  IF ~InBounds(s, f_end)
                 THEN [ok |-> FALSE, kind |-> "index", end |-> 0]
             ELSE IF ByteAt(s, f_end) # "\""
                 THEN [ok |-> FALSE, kind |-> "quote", end |-> 0]
             ELSE [ok |-> TRUE, kind |-> "", end |-> f_end]

\* One quoted decimal field: find the dot from f_start on, take `precision`
\* digits after it, and require the closing quote there.
DecimalField(s, f_start, precision) ==
    IF f_start > Len(s) THEN [ok |-> FALSE, kind |-> "slice", end |-> 0]
    ELSE LET found == StrFind(SliceFrom(s, f_start), ".")
         IN  IF found = NoneVal THEN [ok |-> FALSE, kind |-> "dot", end |-> 0]
             ELSE LET dot_pos == f_start + found
                      f_end == FieldEnd(dot_pos, precision)
                  IN  IF ~InBounds(s, f_end)
                          THEN [ok |-> FALSE, kind |-> "index", end |-> 0]
                      ELSE IF ByteAt(s, f_end) # "\""
                          THEN [ok |-> FALSE, kind |-> "quote", end |-> 0]
                      ELSE [ok |-> TRUE, kind |-> "", end |-> f_end]

\* The timestamp: transaction_time_digits bytes from T_start, parsed as u64,
\* then the comma.
TimeField(s, T_start, transaction_time_digits) ==
    LET T_end == T_start + transaction_time_digits
    IN  IF T_end > Len(s) THEN [ok |-> FALSE, kind |-> "slice", val |-> ""]
        ELSE LET T == ParseU64(Slice(s, T_start, T_end))
             IN  IF ~T.ok THEN [ok |-> FALSE, kind |-> "parse", val |-> ""]
                 ELSE IF ~InBounds(s, T_end)
                     THEN [ok |-> FALSE, kind |-> "index", val |-> ""]
                 ELSE IF ByteAt(s, T_end) # ","
                     THEN [ok |-> FALSE, kind |-> "comma", val |-> ""]
                 ELSE [ok |-> TRUE, kind |-> "", val |-> T.val]

parse_book_ticker(s, cfg) ==
    IF ~InBounds(s, cfg.start) THEN Panic("start", "index")
    ELSE IF ByteAt(s, cfg.start) # "b" THEN Panic("start", "anchor")
    ELSE
    LET b_start == cfg.start + SkipAnchor
        fb == DecimalField(s, b_start, cfg.price_precision)
    IN  IF ~fb.ok THEN Panic("b", fb.kind) ELSE
    LET b_end == fb.end
        B_start == b_end + SkipQuoted
        fB == DecimalField(s, B_start, cfg.volume_precision)
    IN  IF ~fB.ok THEN Panic("B", fB.kind) ELSE
    LET B_end == fB.end
        a_start == B_end + SkipQuoted
        fa == DecimalField(s, a_start, cfg.price_precision)
    IN  IF ~fa.ok THEN Panic("a", fa.kind) ELSE
    LET a_end == fa.end
        A_start == a_end + SkipQuoted
        fA == DecimalField(s, A_start, cfg.volume_precision)
    IN  IF ~fA.ok THEN Panic("A", fA.kind) ELSE
    LET A_end == fA.end
        T_start == A_end + SkipToT
        fT == TimeField(s, T_start, cfg.transaction_time_digits)
    IN  IF ~fT.ok THEN Panic("T", fT.kind) ELSE
        [ok |-> TRUE, field |-> "", kind |-> "",
         T |-> fT.val,
         b |-> Slice(s, b_start, b_end),
         B |-> Slice(s, B_start, B_end),
         a |-> Slice(s, a_start, a_end),
         A |-> Slice(s, A_start, A_end),
         at |-> [b_start |-> b_start, b_end |-> b_end,
                 B_start |-> B_start, B_end |-> B_end,
                 a_start |-> a_start, a_end |-> a_end,
                 A_start |-> A_start, A_end |-> A_end,
                 T_start |-> T_start,
                 T_end |-> T_start + cfg.transaction_time_digits]]

Config(start, pp, vp, ttd) ==
    [start |-> start, price_precision |-> pp, volume_precision |-> vp,
     transaction_time_digits |-> ttd]

---------------------------------------------------------------------------
(* The general-purpose decode of the same message into BookTicker           *)
(* (#[derive(serde::Deserialize)], serde_json::from_str): a JSON object of  *)
(* string and unsigned-number members, in any order, unknown keys ignored.  *)

DecodeErr == [ok |-> FALSE, T |-> "", b |-> "", B |-> "", a |-> "", A |-> ""]

\* the offset of the first `"` at or after i (a borrowed &str admits no escape)
ClosingQuote(s, i) ==
    LET found == StrFind(SliceFrom(s, i), "\"")
        esc == StrFind(SliceFrom(s, i), "\\")
    IN  IF found = NoneVal \/ (esc # NoneVal /\ esc < found) THEN NoneVal
        ELSE i + found

\* the offset just after the longest run of digits that starts at i
RECURSIVE DigitsEnd(_, _)
DigitsEnd(s, i) ==
    IF InBounds(s, i) /\ IsDigit(ByteAt(s, i)) THEN DigitsEnd(s, i + 1) ELSE i

\* a JSON unsigned integer: at least one digit, no leading zero, no sign
IsJsonUInt(t) ==
    /\ Len(t) >= 1
    /\ \A i \in 0..(Len(t) - 1) : IsDigit(ByteAt(t, i))
    /\ (Len(t) > 1 => ByteAt(t, 0) # "0")

\* The members from offset i on, added to acc (key -> [str, text]); the
\* object must end the text.
RECURSIVE JsonMembers(_, _, _)
JsonMembers(s, i, acc) ==
    IF ~InBounds(s, i) \/ ByteAt(s, i) # "\"" THEN [ok |-> FALSE, map |-> acc]
    ELSE
    LET k_end == ClosingQuote(s, i + 1)
    IN  IF k_end = NoneVal \/ ~InBounds(s, k_end + 2) \/ ByteAt(s, k_end + 1) # ":"
            THEN [ok |-> FALSE, map |-> acc]
        ELSE
    LET key == Slice(s, i + 1, k_end)
        v == k_end + 2
        isStr == ByteAt(s, v) = "\""
        v_end == IF isStr THEN ClosingQuote(s, v + 1) ELSE DigitsEnd(s, v)
        text == IF isStr THEN Slice(s, v + 1, v_end) ELSE Slice(s, v, v_end)
        next == IF isStr THEN v_end + 1 ELSE v_end
    IN  IF v_end = NoneVal \/ (~isStr /\ ~IsJsonUInt(text)) \/ ~InBounds(s, next)
               \/ key \in DOMAIN acc
            THEN [ok |-> FALSE, map |-> acc]
        ELSE
    LET acc2 == acc @@ (key :> [str |-> isStr, text |-> text])
    IN  IF ByteAt(s, next) = "}"
            THEN [ok |-> next = Len(s) - 1, map |-> acc2]
        ELSE IF ByteAt(s, next) = ","
            THEN JsonMembers(s, next + 1, acc2)
        ELSE [ok |-> FALSE, map |-> acc2]

JsonDecode(s) ==
    IF Len(s) < 2 \/ ByteAt(s, 0) # "{" THEN DecodeErr
    ELSE
    LET m == JsonMembers(s, 1, <<>>)
        o == m.map
    IN  IF ~m.ok \/ ~({"T", "b", "B", "a", "A"} \subseteq DOMAIN o) THEN DecodeErr
        ELSE IF o["T"].str \/ ~o["b"].str \/ ~o["B"].str \/ ~o["a"].str \/ ~o["A"].str
            THEN DecodeErr
        ELSE IF ~NumeralLE(o["T"].text, U64MaxNumeral) THEN DecodeErr
        ELSE [ok |-> TRUE, T |-> o["T"].text, b |-> o["b"].text,
              B |-> o["B"].text, a |-> o["a"].text, A |-> o["A"].text]

---------------------------------------------------------------------------
(* Messages of the documented shape *)

\* {"e":"bookTicker","u":<u>,"s":"BTCUSDT", up to the quote that opens "b"
Prefix(u) == "{\"e\":\"bookTicker\",\"u\":" \o u \o ",\"s\":\"BTCUSDT\","

\* ..."b":"<b>","B":"<B>","a":"<a>","A":"<A>","T":<T>,"E":<E>}
Message(m) ==
    m.prefix \o "\"b\":\"" \o m.b \o "\",\"B\":\"" \o m.B \o "\",\"a\":\"" \o m.a
        \o "\",\"A\":\"" \o m.A \o "\",\"T\":" \o m.T \o ",\"E\":" \o m.E \o "}"

\* the offset of the letter b of the "b" key
AnchorOf(m) == Len(m.prefix) + 1

ExampleMessage == "{\"e\":\"bookTicker\",\"u\":1,\"s\":\"BTCUSDT\",\"b\":\"83604.80\",\"B\":\"10.746\",\"a\":\"83604.90\",\"A\":\"9.514\",\"T\":1744760290967,\"E\":1744760290967}"

\* s with the byte at offset pos replaced by ch (pos = NoneVal: s itself)
ReplaceByte(s, pos, ch) ==
    IF pos = NoneVal THEN s ELSE Slice(s, 0, pos) \o ch \o SliceFrom(s, pos + 1)

\* the text handed to the extractor for the input description m
TextOf(m) == ReplaceByte(Message(m), m.pos, m.ch)

\* the offsets of the closing quotes of the four quoted values of Message(m)
QuoteOf(m) ==
    LET qb == AnchorOf(m) + 4 + Len(m.b)
        qB == qb + 7 + Len(m.B)
        qa == qB + 7 + Len(m.a)
        qA == qa + 7 + Len(m.A)
    IN  [b |-> qb, B |-> qB, a |-> qa, A |-> qA]

---------------------------------------------------------------------------
(* Bounds of the inputs *)

\* precisions range over 0..MaxPrecision
MaxPrecision == 8
\* precisions of the messages whose boilerplate is altered
MaxAlteredPrecision == 2
\* precisions tried on arbitrary quoted values
MaxFuzzPrecision == 3
\* transaction_time_digits tried on arbitrary timestamp texts
MaxTimeDigits == 4

Fields == {"b", "B", "a", "A"}

\* integer parts and fractional digits the test values are cut from
IntPart(f, k) ==
    IF k = 1
    THEN (CASE f = "b" -> "83604" [] f = "B" -> "10" [] f = "a" -> "83604" [] OTHER -> "9")
    ELSE (CASE f = "b" -> "7" [] f = "B" -> "0" [] f = "a" -> "120" [] OTHER -> "4510")

FracDigits(f) ==
    CASE f = "b" -> "803517264951" [] f = "B" -> "746951382207"
      [] f = "a" -> "903517264958" [] OTHER -> "514273960613"

\* the value of field f with n fractional digits
Decimal(f, k, n) == IntPart(f, k) \o "." \o Slice(FracDigits(f), 0, n)

UpdateIds == {"1", "7283946601071"}
TimeStamps == {"1744760290967", "0", "90"}

NoResult == Panic("", "not called")

InputOf(u, b, B, a, A, T, pos, ch) ==
    [prefix |-> Prefix(u), b |-> b, B |-> B, a |-> a, A |-> A, T |-> T,
     E |-> "1744760290967", pos |-> pos, ch |-> ch]

\* the state before the call of parse_book_ticker on the input m under cfg
Ready(m, cfg) ==
    /\ input = m
    /\ json = TextOf(m)
    /\ config = cfg
    /\ result = NoResult
    /\ pc = "ready"
    /\ ticks_acc = 0
    /\ measurements_num = 0
    /\ avg = NoneVal
    /\ divisor = NoneVal
    /\ overflow_checks = FALSE
    /\ samples = <<>>
    /\ parsed = 0
    /\ received = 0

\* messages of the schema, every precision, decoded at the offset of the
\* letter b and at the offset of the quote before it
SchemaInit ==
    \E pp \in 0..MaxPrecision, vp \in 0..MaxPrecision, k \in 1..2,
       u \in UpdateIds, T \in TimeStamps, back \in 0..1 :
        LET m == InputOf(u, Decimal("b", k, pp), Decimal("B", k, vp),
                         Decimal("a", k, pp), Decimal("A", k, vp), T, NoneVal, "")
        IN  Ready(m, Config(AnchorOf(m) - back, pp, vp, Len(T)))

\* messages of the schema but for one field, which carries one fractional
\* digit more or fewer than configured
DigitsInit ==
    \E pp \in 0..MaxPrecision, vp \in 0..MaxPrecision, k \in 1..2,
       f \in Fields, d \in {-1, 1} :
        LET n(g) == (IF g \in {"b", "a"} THEN pp ELSE vp) + (IF g = f THEN d ELSE 0)
            m == InputOf("1", Decimal("b", k, n("b")), Decimal("B", k, n("B")),
                         Decimal("a", k, n("a")), Decimal("A", k, n("A")),
                         "1744760290967", NoneVal, "")
        IN  /\ n(f) >= 0
            /\ Ready(m, Config(AnchorOf(m), pp, vp, 13))

\* the skipped bytes of Message(m): the 3 after the anchor, the 7 from each of
\* the first three closing quotes, the 6 from the last
Boilerplate(m) ==
    LET q == QuoteOf(m)
    IN  ((AnchorOf(m) + 1)..(AnchorOf(m) + 3)) \cup (q.b..(q.b + 6))
            \cup (q.B..(q.B + 6)) \cup (q.a..(q.a + 6)) \cup (q.A..(q.A + 5))

Replacements == {"x", ".", "\"", ",", ":", "0", "B"}

\* messages of the schema with one boilerplate byte replaced by another
AlteredInit ==
    \E pp \in 0..MaxAlteredPrecision, vp \in 0..MaxAlteredPrecision,
       ch \in Replacements :
        LET m0 == InputOf("1", Decimal("b", 1, pp), Decimal("B", 1, vp),
                          Decimal("a", 1, pp), Decimal("A", 1, vp),
                          "1744760290967", NoneVal, "")
        IN  \E pos \in Boilerplate(m0) :
                /\ ByteAt(Message(m0), pos) # ch
                /\ Ready([m0 EXCEPT !.pos = pos, !.ch = ch],
                         Config(AnchorOf(m0), pp, vp, 13))

FuzzValues == {"7", "12", "1.", "1.2", "1.23", "1.2.3"}

\* the offset of the b of "bookTicker", the first b of a message
EventTypeB == StrFind(Prefix("1"), "b")

\* messages of the shape with arbitrary quoted values, decoded at the offset
\* of either b of the message, of the quote before the "b" key, and of the
\* end of the text
FuzzInit ==
    \E pp \in 0..MaxFuzzPrecision, vp \in 0..MaxFuzzPrecision,
       b \in FuzzValues, B \in FuzzValues, a \in FuzzValues, A \in FuzzValues,
       T \in {"17", "5"} :
        LET m == InputOf("1", b, B, a, A, T, NoneVal, "")
        IN  \E start \in {AnchorOf(m), EventTypeB, AnchorOf(m) - 1, Len(Message(m))} :
                Ready(m, Config(start, pp, vp, Len(T)))

TimeBytes == {"0", "7", "+", "-"}

\* texts of 1..n bytes of TimeBytes
RECURSIVE TimeTexts(_)
TimeTexts(n) ==
    IF n = 0 THEN {""}
    ELSE TimeTexts(n - 1) \cup {t \o c : t \in TimeTexts(n - 1), c \in TimeBytes}

LongTimes ==
    {"+744760290967", "1744760290967", "18446744073709551615", "18446744073709551616"}

\* messages of the schema with an arbitrary text in the place of the timestamp
TimeInit ==
    \E T \in (TimeTexts(MaxTimeDigits - 1) \ {""}) \cup LongTimes,
       ttd \in (0..MaxTimeDigits) \cup {13, 20} :
        LET m == InputOf("1", Decimal("b", 1, 2), Decimal("B", 1, 3),
                         Decimal("a", 1, 2), Decimal("A", 1, 3), T, NoneVal, "")
        IN  /\ ttd <= MaxTimeDigits \/ ttd = Len(T)
            /\ Ready(m, Config(AnchorOf(m), 2, 3, ttd))

\* the call: parse_book_ticker(json, config) returns a BookTicker or panics
Call ==
    /\ pc = "ready"
    /\ result' = parse_book_ticker(json, config)
    /\ pc' = IF result'.ok THEN "returned" ELSE "panicked"
    /\ UNCHANGED <<json, config, input>>
    /\ UNCHANGED loopVars

ParseNext == Call

Spec == SchemaInit /\ [][ParseNext]_vars
SpecDigits == DigitsInit /\ [][ParseNext]_vars
SpecAltered == AlteredInit /\ [][ParseNext]_vars
SpecFuzz == FuzzInit /\ [][ParseNext]_vars
SpecTime == TimeInit /\ [][ParseNext]_vars

---------------------------------------------------------------------------
(* The latency probe and the driving loop of main *)

\* The counters of main are u64.  The model keeps the arithmetic of a w-bit
\* unsigned integer with w = CounterBits, so that overflow is within reach.
CounterBits == 4
CounterModulus == 2 ^ CounterBits
CounterMax == CounterModulus - 1

\* the stream items the loop takes before the model stops it
MaxMessages == 3

\* x + y on the unsigned type: a panic in a build with overflow checks, the
\* wrapped sum in a build without
AddU64(x, y, checks) ==
    IF x + y <= CounterMax THEN [ok |-> TRUE, val |-> x + y]
    ELSE IF checks THEN [ok |-> FALSE, val |-> 0]
    ELSE [ok |-> TRUE, val |-> (x + y) % CounterModulus]

\* x - y on the unsigned type
SubU64(x, y, checks) ==
    IF x >= y THEN [ok |-> TRUE, val |-> x - y]
    ELSE IF checks THEN [ok |-> FALSE, val |-> 0]
    ELSE [ok |-> TRUE, val |-> (x - y) % CounterModulus]

\* _rdtsc() - start
counter_elapsed(start, now, checks) == SubU64(now, start, checks)

\* measure(f): the counter is read, f runs (and may panic), the counter is
\* read again; (elapsed, res) is returned
measure(start, res, now, checks) ==
    IF ~res.ok THEN [ok |-> FALSE, elapsed |-> 0, res |-> res]
    ELSE LET e == counter_elapsed(start, now, checks)
         IN  [ok |-> e.ok, elapsed |-> e.val, res |-> res]

NoStats == [ok |-> FALSE, acc |-> 0, num |-> 0, divisor |-> NoneVal, avg |-> NoneVal]

\* variant: the average is taken before ticks_acc += elapsed
StatsUpdate_AverageFirst(acc, num, elapsed, checks) ==
    LET acc2 == AddU64(acc, elapsed, checks)
        num2 == AddU64(num, 1, checks)
    IN  IF ~acc2.ok THEN [NoStats EXCEPT !.acc = acc, !.num = num]
        ELSE IF ~num2.ok THEN [NoStats EXCEPT !.acc = acc2.val, !.num = num]
        ELSE IF num2.val = 0
            THEN [NoStats EXCEPT !.acc = acc2.val, !.num = 0, !.divisor = 0]
        ELSE [ok |-> TRUE, acc |-> acc2.val, num |-> num2.val,
              divisor |-> num2.val, avg |-> acc \div num2.val]

\* variant: the average is taken before measurements_num += 1
StatsUpdate_DivideFirst(acc, num, elapsed, checks) ==
    LET acc2 == AddU64(acc, elapsed, checks)
        num2 == AddU64(num, 1, checks)
    IN  IF ~acc2.ok THEN [NoStats EXCEPT !.acc = acc, !.num = num]
        ELSE IF num = 0
            THEN [NoStats EXCEPT !.acc = acc2.val, !.num = num, !.divisor = 0]
        ELSE IF ~num2.ok THEN [NoStats EXCEPT !.acc = acc2.val, !.num = num]
        ELSE [ok |-> TRUE, acc |-> acc2.val, num |-> num2.val,
              divisor |-> num, avg |-> acc2.val \div num]

\* ticks_acc += elapsed; measurements_num += 1; ticks_acc / measurements_num
StatsUpdate(acc, num, elapsed, checks) ==
    LET acc2 == AddU64(acc, elapsed, checks)
        num2 == AddU64(num, 1, checks)
    IN  IF ~acc2.ok THEN [NoStats EXCEPT !.acc = acc, !.num = num]
        ELSE IF ~num2.ok THEN [NoStats EXCEPT !.acc = acc2.val, !.num = num]
        ELSE IF num2.val = 0
            THEN [NoStats EXCEPT !.acc = acc2.val, !.num = 0, !.divisor = 0]
        ELSE [ok |-> TRUE, acc |-> acc2.val, num |-> num2.val,
              divisor |-> num2.val, avg |-> acc2.val \div num2.val]

\* hint::black_box: the identity
black_box(x) == x

\* config of main
MainConfig == Config(51, 2, 3, 13)

\* what the feed sends as text: bookTicker messages whose b is at offset 51,
\* and one whose update id is shorter, so that the offset has drifted
FeedInputs ==
    {InputOf("7283946601071", "83604.80", "10.746", "83604.90", "9.514",
             "1744760290967", NoneVal, ""),
     InputOf("7283946601072", "83604.70", "1.200", "83604.80", "0.014",
             "1744760290968", NoneVal, ""),
     InputOf("1", "83604.80", "10.746", "83604.90", "9.514",
             "1744760290967", NoneVal, "")}

\* readings of the cycle counter
CounterReadings == {0, 1, 3, 6, CounterMax}

LoopInit ==
    /\ input = InputOf("", "", "", "", "", "", NoneVal, "")
    /\ json = ""
    /\ config = MainConfig
    /\ result = NoResult
    /\ pc = "running"
    /\ ticks_acc = 0
    /\ measurements_num = 0
    /\ avg = NoneVal
    /\ divisor = NoneVal
    /\ overflow_checks \in BOOLEAN
    /\ samples = <<>>
    /\ parsed = 0
    /\ received = 0

\* a text message: it is decoded under the probe, and the statistics follow
RecvText ==
    /\ pc = "running"
    /\ received < MaxMessages
    /\ \E m \in FeedInputs :
       \E res \in {parse_book_ticker(TextOf(m), black_box(config))} :
       \E start \in CounterReadings, now \in CounterReadings :
       \E me \in {measure(start, res, now, overflow_checks)} :
       \E st \in {IF me.ok
                  THEN StatsUpdate(ticks_acc, measurements_num, me.elapsed,
                                   overflow_checks)
                  ELSE [NoStats EXCEPT !.acc = ticks_acc, !.num = measurements_num]} :
            /\ input' = m
            /\ json' = TextOf(m)
            /\ result' = me.res
            /\ parsed' = IF me.res.ok THEN parsed + 1 ELSE parsed
            /\ samples' = IF me.ok THEN Append(samples, me.elapsed) ELSE samples
            /\ ticks_acc' = st.acc
            /\ measurements_num' = st.num
            /\ divisor' = IF st.divisor # NoneVal THEN st.divisor ELSE divisor
            /\ avg' = IF st.ok THEN st.avg ELSE avg
            /\ pc' = IF st.ok THEN "running" ELSE "panicked"
    /\ received' = received + 1
    /\ UNCHANGED <<config, overflow_checks>>

\* variant: a message that is no text is counted as a measurement
RecvOther_Counted ==
    /\ pc = "running"
    /\ received < MaxMessages
    /\ received' = received + 1
    /\ measurements_num' = measurements_num + 1
    /\ UNCHANGED <<json, config, result, pc, input, ticks_acc,
                   avg, divisor, overflow_checks, samples, parsed>>

\* a message that is no text (binary, ping, pong, close): nothing is done
RecvOther ==
    /\ pc = "running"
    /\ received < MaxMessages
    /\ received' = received + 1
    /\ UNCHANGED <<json, config, result, pc, input, ticks_acc, measurements_num,
                   avg, divisor, overflow_checks, samples, parsed>>

\* the stream yields an error: main returns it
RecvErr ==
    /\ pc = "running"
    /\ received < MaxMessages
    /\ received' = received + 1
    /\ pc' = "failed"
    /\ UNCHANGED <<json, config, result, input, ticks_acc, measurements_num,
                   avg, divisor, overflow_checks, samples, parsed>>

\* the stream ends: main returns Ok(())
StreamEnd ==
    /\ pc = "running"
    /\ pc' = "ended"
    /\ UNCHANGED <<json, config, result, input, ticks_acc, measurements_num,
                   avg, divisor, overflow_checks, samples, parsed, received>>

LoopNext == RecvText \/ RecvOther \/ RecvErr \/ StreamEnd

SpecLoop == LoopInit /\ [][LoopNext]_vars

---------------------------------------------------------------------------
(* What the claims speak of *)

HasDot(v) == StrFind(v, ".") # NoneVal

\* v is digits, a decimal point, and exactly p digits
IsDecimal(v, p) ==
    \E d \in 1..(Len(v) - 1) :
        /\ ByteAt(v, d) = "."
        /\ Len(v) = d + 1 + p
        /\ \A i \in 0..(Len(v) - 1) : i # d => IsDigit(ByteAt(v, i))

PrecisionOf(cfg, f) ==
    IF f \in {"b", "a"} THEN cfg.price_precision ELSE cfg.volume_precision

\* the rest of the assumed schema: no byte altered, the anchor at the letter b,
\* the timestamp a JSON integer of transaction_time_digits digits
SchemaFrame(m, cfg) ==
    /\ m.pos = NoneVal
    /\ cfg.start = AnchorOf(m)
    /\ cfg.price_precision \in 0..MaxPrecision
    /\ cfg.volume_precision \in 0..MaxPrecision
    /\ IsJsonUInt(m.T)
    /\ Len(m.T) = cfg.transaction_time_digits

\* the message matches the assumed schema under cfg
WellFormed(m, cfg) ==
    /\ SchemaFrame(m, cfg)
    /\ \A f \in Fields : IsDecimal(m[f], PrecisionOf(cfg, f))

\* the message matches the schema but for field f, which carries one
\* fractional digit more or fewer than configured
OffByOne(m, cfg, f) ==
    /\ SchemaFrame(m, cfg)
    /\ \A g \in Fields \ {f} : IsDecimal(m[g], PrecisionOf(cfg, g))
    /\ \/ IsDecimal(m[f], PrecisionOf(cfg, f) + 1)
       \/ PrecisionOf(cfg, f) >= 1 /\ IsDecimal(m[f], PrecisionOf(cfg, f) - 1)

called == pc \in {"returned", "panicked"}

RECURSIVE SumOf(_)
SumOf(seq) == IF seq = <<>> THEN 0 ELSE Head(seq) + SumOf(Tail(seq))

---------------------------------------------------------------------------
(* C1 *)

\* C1: on every message that matches the assumed schema (anchor at the letter
\* b, each decimal field a decimal point followed by exactly the configured
\* number of digits, precisions 0..8, T of transaction_time_digits digits),
\* parse_book_ticker returns, and its b, B, a, A, T are those of the general
\* JSON decode of the same text.
C1_Equivalence ==
    (called /\ WellFormed(input, config)) =>
        LET d == JsonDecode(json)
        IN  /\ d.ok
            /\ result.ok
            /\ result.b = d.b /\ result.B = d.B
            /\ result.a = d.a /\ result.A = d.A
            /\ result.T = d.T

C1_Witness ==
    /\ pc = "returned"
    /\ WellFormed(input, config)
    /\ config.price_precision = 0
    /\ config.volume_precision = 8
    /\ result.b = "83604."
    /\ result.A = "9.51427396"

---------------------------------------------------------------------------
(* C2 *)

ExampleDecoded ==
    /\ result.ok
    /\ result.T = "1744760290967"
    /\ result.b = "83604.80" /\ result.B = "10.746"
    /\ result.a = "83604.90" /\ result.A = "9.514"

\* C2 as stated: the example message, decoded with start = 38, the offset of
\* the quote that opens the "b" key, yields the example's fields.
C2_StartAtQuote ==
    (called /\ json = ExampleMessage /\ config = Config(38, 2, 3, 13)
        /\ ByteAt(json, 38) = "\"") => ExampleDecoded

\* C2: the example message, decoded with start = 39, the offset of the letter
\* b of the "b" key, and precisions 2 and 3 and 13 timestamp digits, yields
\* T = 1744760290967, b = "83604.80", B = "10.746", a = "83604.90", A = "9.514".
C2_StartAtLetter ==
    (called /\ json = ExampleMessage /\ config = Config(39, 2, 3, 13)
        /\ ByteAt(json, 39) = "b") => ExampleDecoded

C2_Witness ==
    /\ pc = "returned"
    /\ json = ExampleMessage
    /\ config = Config(39, 2, 3, 13)
    /\ result.T = "1744760290967"

---------------------------------------------------------------------------
(* C3 *)

\* C3: when one of the four decimal fields carries one fractional digit more,
\* or one fewer, than its configured precision (0..8) and the message matches
\* the schema otherwise, parse_book_ticker panics, and it does so at that
\* field's closing-quote assertion.
C3_DigitCount ==
    \A f \in Fields :
        (called /\ OffByOne(input, config, f)) =>
            /\ ~result.ok
            /\ result.field = f
            /\ result.kind = "quote"

C3_Witness ==
    /\ pc = "panicked"
    /\ OffByOne(input, config, "A")
    /\ config.volume_precision = 1
    /\ IsDecimal(input.A, 0)
    /\ result.field = "A"

---------------------------------------------------------------------------
(* C4 *)

\* one byte of the boilerplate differs from the expected literal
Altered(m) ==
    /\ m.pos \in Boilerplate(m)
    /\ ByteAt(TextOf(m), m.pos) # ByteAt(Message(m), m.pos)
    /\ \A f \in Fields : IsDecimal(m[f], PrecisionOf(config, f))
    /\ config.start = AnchorOf(m)

\* the field whose closing quote is at offset pos, or "" when there is none
ClosedAt(m, pos) ==
    LET q == QuoteOf(m)
    IN  IF pos = q.b THEN "b" ELSE IF pos = q.B THEN "B"
        ELSE IF pos = q.a THEN "a" ELSE IF pos = q.A THEN "A" ELSE ""

\* C4 as stated: a mismatch in any skipped boilerplate byte ends in failure.
C4_AnyByteFails == (called /\ Altered(input)) => ~result.ok

\* C4: a mismatch in the closing quote that begins `","B":"`, `","a":"`,
\* `","A":"` or `","T":` ends in the failure of that field's closing-quote
\* assertion; the other skipped bytes (the 3 after the anchor, the last 6 of
\* each 7, the last 5 of the 6) are never read, and a mismatch there leaves
\* the decode successful with the fields of the unaltered message.
C4_OnlyQuotesChecked ==
    (called /\ Altered(input)) =>
        IF ClosedAt(input, input.pos) # ""
        THEN /\ ~result.ok
             /\ result.field = ClosedAt(input, input.pos)
             /\ result.kind = "quote"
        ELSE /\ result.ok
             /\ result.b = input.b /\ result.B = input.B
             /\ result.a = input.a /\ result.A = input.A
             /\ result.T = input.T

C4_Witness ==
    /\ pc = "returned"
    /\ Altered(input)
    /\ input.pos = QuoteOf(input).B + 1
    /\ input.ch = "."
    /\ result.B = input.B

---------------------------------------------------------------------------
(* C5 *)

\* v is a text of digits and decimal points
IsNumberText(v) == \A i \in 0..(Len(v) - 1) : IsDigit(ByteAt(v, i)) \/ ByteAt(v, i) = "."

---------------------------------------------------------------------------
(* C6 *)

\* C6 as stated: when parse_book_ticker returns, the transaction_time_digits
\* bytes that start 6 bytes after the closing quote of A are all decimal
\* digits, T is their value, and a comma follows them (so a text with a byte
\* that is no digit, such as a leading '+', fails).
C6_TimeIsDigits ==
    (called /\ result.ok) =>
        LET T_start == result.at.A_end + 6
            T_end == T_start + config.transaction_time_digits
            text == Slice(json, T_start, T_end)
        IN  /\ \A i \in 0..(Len(text) - 1) : IsDigit(ByteAt(text, i))
            /\ Len(text) = config.transaction_time_digits
            /\ result.T = StripZeros(text)
            /\ ByteAt(json, T_end) = ","

---------------------------------------------------------------------------
(* C7 *)

\* an average has been printed for the last of the samples
reported == pc # "panicked" /\ samples # <<>>

\* C7 as stated: for any u64 samples c1..cn the average printed after the
\* n-th message is floor((c1 + ... + cn) / n).
C7_AverageOfAny == reported => avg = SumOf(samples) \div Len(samples)

\* C7: for samples c1..cn whose sum fits the unsigned counter
\* (c1 + ... + cn <= u64::MAX), the average printed after the n-th message is
\* floor((c1 + ... + cn) / n).
C7_AverageWhileFits ==
    (reported /\ SumOf(samples) <= CounterMax) =>
        avg = SumOf(samples) \div Len(samples)

C7_Witness ==
    /\ pc = "running"
    /\ Len(samples) = 3
    /\ SumOf(samples) = 7
    /\ avg = 2

---------------------------------------------------------------------------
(* C8 *)

\* the loop has not died of an arithmetic overflow
noOverflowPanic == pc # "panicked" \/ ~result.ok

\* C8 as stated: sample_count is the number of completed decodes and
\* accumulated_cycles is the sum of their elapsed cycles.
C8_CountersAreTotals ==
    (pc # "panicked") =>
        /\ measurements_num = parsed
        /\ ticks_acc = SumOf(samples)

StatsInv ==
    noOverflowPanic =>
        /\ measurements_num = parsed
        /\ Len(samples) = parsed
        /\ ticks_acc = SumOf(samples) % CounterModulus
        /\ (SumOf(samples) <= CounterMax => ticks_acc = SumOf(samples))

StatsStep ==
    /\ parsed' \in {parsed, parsed + 1}
    /\ measurements_num' \in {measurements_num, measurements_num + 1}
    /\ (measurements_num' = measurements_num + 1) => (parsed' = parsed + 1)
    /\ (parsed' = parsed) =>
           (measurements_num' = measurements_num /\ ticks_acc' = ticks_acc)
    /\ (SumOf(samples') <= CounterMax) => (ticks_acc' >= ticks_acc)

\* C8: as long as the loop has not panicked on an overflow of its unsigned
\* arithmetic, sample_count is the number of text messages decoded so far and
\* accumulated_cycles is the sum of their elapsed cycles modulo 2^64 (the sum
\* itself while it fits); a step decodes at most one message and counts it at
\* most once, a step that decodes nothing (a message that is no text) leaves
\* both counters as they are, sample_count never decreases, and
\* accumulated_cycles never decreases while the sum fits.
C8_CountersTrackDecodes == [](StatsInv) /\ [][StatsStep]_vars

C8_Witness ==
    /\ pc = "running"
    /\ received = 3
    /\ measurements_num = 2
    /\ parsed = 2
    /\ ticks_acc = 9

---------------------------------------------------------------------------
(* C9 *)

\* C9: the division of the average never has 0 as its divisor: the divisor is
\* measurements_num after its increment, hence at least 1, whatever text and
\* other messages came before.
C9_DivisorPositive ==
    (divisor # NoneVal) => (divisor >= 1 /\ divisor = measurements_num)

C9_Witness ==
    /\ divisor = 2
    /\ received = 3
    /\ parsed = 2
    /\ avg # NoneVal

---------------------------------------------------------------------------
(* C10 *)

\* the slice of field f that was returned
SliceAt(f) ==
    CASE f = "b" -> [lo |-> result.at.b_start, hi |-> result.at.b_end, text |-> result.b]
      [] f = "B" -> [lo |-> result.at.B_start, hi |-> result.at.B_end, text |-> result.B]
      [] f = "a" -> [lo |-> result.at.a_start, hi |-> result.at.a_end, text |-> result.a]
      [] OTHER -> [lo |-> result.at.A_start, hi |-> result.at.A_end, text |-> result.A]

=============================================================================
